---------------------------- MODULE Spec2Model ----------------------------
(***************************************************************************)
(* State-machine model of ngx_http_auth_cas_module.c: configuration        *)
(* loading (create / directive handlers / merge), the per-request access   *)
(* handler, the cookie scanner find_cookie and the login URL builder       *)
(* create_login_url.                                                       *)
(*                                                                         *)
(* Byte strings are sequences of byte values 0..255.  An ngx_str_t is a    *)
(* record [null, len, data]: null says data == NULL, len is the len field, *)
(* data is the memory that starts at the data pointer (it may be longer    *)
(* than len: a request header value is followed by the NUL the nginx       *)
(* header parser stores at value.data[value.len]).  Offsets into data are  *)
(* 0-based as in the C code; data[i + 1] is the byte at offset i.          *)
(***************************************************************************)
EXTENDS Integers, Sequences, FiniteSets, TLC

VARIABLES pc,        \* "parse" | "merge" | "ready" | "recv" | "done"
          confs,     \* confs[l]: the ngx_http_auth_cas_ctx_t of configuration level l
          cfarg,     \* cfarg[l]: the auth_cas_service_url argument in force at level l
          wrote,     \* wrote[l]: bytes the write-mode escape stored for level l's service URL
          merged,    \* number of levels whose merge has run (level 1 is the root)
          loc_conf,  \* the location configuration of the route requests are served on
          r,         \* the request: headers_in.headers, uri, args
          out        \* what the handler returned and produced for the request

vars == <<pc, confs, cfarg, wrote, merged, loc_conf, r, out>>

(***************************************************************************)
(* Bounds of the model.                                                    *)
(***************************************************************************)
\* longest request header list
MaxHeaders == 3
\* depth of the configuration inheritance chain (main -> server -> location ...)
MaxLevels == 2

(***************************************************************************)
(* Program constants.                                                      *)
(***************************************************************************)
\* "?service="
CAS_SERVICE_PARAM == <<63, 115, 101, 114, 118, 105, 99, 101, 61>>
\* "CASC"
CAS_COOKIE_NAME == <<67, 65, 83, 67>>
NGX_CONF_UNSET == -1
\* memchr's "not found"
NULL == -1

ngx_null_string == [null |-> TRUE, len |-> 0, data |-> <<>>]

\* an ngx_str_t holding exactly the bytes b
ngx_string(b) == [null |-> FALSE, len |-> Len(b), data |-> b]

\* the len bytes an ngx_str_t denotes
Bytes(s) == SubSeq(s.data, 1, s.len)

Max(a, b) == IF a >= b THEN a ELSE b
Min(a, b) == IF a <= b THEN a ELSE b

(***************************************************************************)
(* ngx_escape_uri(dst, src, size, NGX_ESCAPE_ARGS), the nginx core         *)
(* function the module calls.  With dst == NULL it returns the NUMBER of   *)
(* bytes that need escaping; otherwise it writes every byte of src, an     *)
(* escaped one as '%' and two upper-case hex digits, and returns the end   *)
(* of what it wrote.  The NGX_ESCAPE_ARGS class is: 0x00-0x1F, 0x7F-0xFF,  *)
(* ' ', '#', '%', '&', '+', ';', '?'.                                      *)
(***************************************************************************)
EscapedInArgs(c) == c < 32 \/ c >= 127 \/ c \in {32, 35, 37, 38, 43, 59, 63}

HexDigit(d) == IF d < 10 THEN 48 + d ELSE 55 + d

\* measure mode: the count n of bytes of src[0..size) to be escaped
RECURSIVE ngx_escape_uri_count(_, _)
ngx_escape_uri_count(src, size) ==
    IF size = 0 THEN 0
    ELSE ngx_escape_uri_count(src, size - 1)
         + (IF EscapedInArgs(src[size]) THEN 1 ELSE 0)

\* write mode: the bytes stored at dst for src[0..size)
RECURSIVE ngx_escape_uri_write(_, _)
ngx_escape_uri_write(src, size) ==
    IF size = 0 THEN <<>>
    ELSE ngx_escape_uri_write(src, size - 1)
         \o (IF EscapedInArgs(src[size])
             THEN <<37, HexDigit(src[size] \div 16), HexDigit(src[size] % 16)>>
             ELSE <<src[size]>>)

(***************************************************************************)
(* Configuration.                                                          *)
(***************************************************************************)
Levels == 1..MaxLevels

\* "http://c/l"
LoginUrlArgs == { <<104, 116, 116, 112, 58, 47, 47, 99, 47, 108>> }
\* "a"
CookieArgs == { <<97>> }
\* "s/" (nothing to escape) and "s ?" (two bytes to escape)
ServiceUrlArgs == { <<115, 47>>, <<115, 32, 63>> }
NoArg == <<>>

\* ngx_http_auth_cas_create_loc_conf
ngx_http_auth_cas_create_loc_conf ==
    [auth_cas             |-> NGX_CONF_UNSET,
     auth_cas_cookie      |-> ngx_null_string,
     auth_cas_login_url   |-> ngx_null_string,
     auth_cas_service_url |-> ngx_null_string]

\* the length set_auth_cas_service_url stores: value->len + ngx_escape_uri(NULL, ...)
ServiceUrlLen(value) == Len(value) + ngx_escape_uri_count(value, Len(value))

\* set_auth_cas_service_url: the stored string.  The buffer holds len + 1
\* zeroed bytes (ngx_pcalloc); the write-mode call stores its bytes from offset
\* 0 on, and data is what the buffer holds afterwards (bytes stored past the
\* buffer are not part of it).
set_auth_cas_service_url(value) ==
    LET len     == ServiceUrlLen(value)
        written == ngx_escape_uri_write(value, Len(value))
    IN  [null |-> FALSE,
         len  |-> len,
         data |-> [i \in 1..(len + 1) |->
                     IF i <= Len(written) THEN written[i] ELSE 0]]

\* ngx_conf_merge_value(conf, prev, default)
ngx_conf_merge_value(conf, prev, default) ==
    IF conf = NGX_CONF_UNSET
    THEN (IF prev = NGX_CONF_UNSET THEN default ELSE prev)
    ELSE conf

\* ngx_conf_merge_str_value(conf, prev, default)
ngx_conf_merge_str_value(conf, prev, default) ==
    IF conf.null
    THEN (IF ~prev.null THEN prev ELSE ngx_string(default))
    ELSE conf

\* ngx_http_auth_cas_merge_loc_conf(cf, parent, child): the child afterwards
ngx_http_auth_cas_merge_loc_conf(prev, conf) ==
    [auth_cas             |-> ngx_conf_merge_value(conf.auth_cas, prev.auth_cas, 0),
     auth_cas_cookie      |-> ngx_conf_merge_str_value(conf.auth_cas_cookie,
                                                       prev.auth_cas_cookie,
                                                       CAS_COOKIE_NAME),
     auth_cas_login_url   |-> IF conf.auth_cas_login_url.null
                              THEN prev.auth_cas_login_url
                              ELSE conf.auth_cas_login_url,
     auth_cas_service_url |-> IF conf.auth_cas_service_url.null
                              THEN prev.auth_cas_service_url
                              ELSE conf.auth_cas_service_url]

NoRequest == [headers |-> <<>>, cookies_elts |-> "NULL", uri |-> <<>>, args |-> <<>>]

\* the record of a handler run before find_cookie / create_login_url are called
NoFind == [crashed |-> FALSE, rc |-> 0, value |-> ngx_null_string, trace |-> <<>>,
           hit |-> 0, val |-> NULL, semicolon |-> NULL]
NoUrl == [rc |-> 0, alloc |-> 0, stored |-> <<>>, s |-> ngx_null_string]
NoOut == [status |-> "none", location |-> ngx_null_string,
          scanned |-> FALSE, built |-> FALSE, fc |-> NoFind, url |-> NoUrl,
          failed |-> {}]

\* nginx has created the location configuration of every level
ConfInit ==
    /\ pc = "parse"
    /\ confs = [l \in Levels |-> ngx_http_auth_cas_create_loc_conf]
    /\ cfarg = [l \in Levels |-> NoArg]
    /\ wrote = [l \in Levels |-> 0]
    /\ merged = 1
    /\ loc_conf = ngx_http_auth_cas_create_loc_conf
    /\ r = NoRequest
    /\ out = NoOut

\* directive "auth_cas on|off" (ngx_conf_set_flag_slot; a second one is "is duplicate")
SetAuthCas(l, flag) ==
    /\ pc = "parse"
    /\ confs[l].auth_cas = NGX_CONF_UNSET
    /\ confs' = [confs EXCEPT ![l].auth_cas = flag]
    /\ UNCHANGED <<pc, cfarg, wrote, merged, loc_conf, r, out>>

\* directive "auth_cas_cookie" (ngx_conf_set_str_slot)
SetCookie(l, value) ==
    /\ pc = "parse"
    /\ confs[l].auth_cas_cookie.null
    /\ confs' = [confs EXCEPT ![l].auth_cas_cookie = ngx_string(value)]
    /\ UNCHANGED <<pc, cfarg, wrote, merged, loc_conf, r, out>>

\* directive "auth_cas_login_url" (ngx_conf_set_str_slot)
SetLoginUrl(l, value) ==
    /\ pc = "parse"
    /\ confs[l].auth_cas_login_url.null
    /\ confs' = [confs EXCEPT ![l].auth_cas_login_url = ngx_string(value)]
    /\ UNCHANGED <<pc, cfarg, wrote, merged, loc_conf, r, out>>

\* directive "auth_cas_service_url" (set_auth_cas_service_url; no duplicate check)
SetServiceUrl(l, value) ==
    /\ pc = "parse"
    /\ confs' = [confs EXCEPT ![l].auth_cas_service_url = set_auth_cas_service_url(value)]
    /\ cfarg' = [cfarg EXCEPT ![l] = value]
    /\ wrote' = [wrote EXCEPT ![l] = Len(ngx_escape_uri_write(value, Len(value)))]
    /\ UNCHANGED <<pc, merged, loc_conf, r, out>>

\* the configuration file has been read; the merges follow
EndParse ==
    /\ pc = "parse"
    /\ pc' = "merge"
    /\ UNCHANGED <<confs, cfarg, wrote, merged, loc_conf, r, out>>

\* ngx_http_auth_cas_merge_loc_conf of the next level with its parent
MergeLevel ==
    /\ pc = "merge"
    /\ merged < MaxLevels
    /\ LET p == merged
           c == merged + 1
       IN  /\ confs' = [confs EXCEPT ![c] = ngx_http_auth_cas_merge_loc_conf(confs[p], confs[c])]
           /\ cfarg' = [cfarg EXCEPT ![c] =
                           IF confs[c].auth_cas_service_url.null THEN cfarg[p] ELSE cfarg[c]]
           /\ wrote' = [wrote EXCEPT ![c] =
                           IF confs[c].auth_cas_service_url.null THEN wrote[p] ELSE wrote[c]]
           /\ merged' = c
           \* the last level is the one ngx_http_get_module_loc_conf(r, ...) returns
           /\ loc_conf' = IF c = MaxLevels
                          THEN ngx_http_auth_cas_merge_loc_conf(confs[p], confs[c])
                          ELSE loc_conf
    /\ pc' = IF merged + 1 = MaxLevels THEN "ready" ELSE "merge"
    /\ UNCHANGED <<r, out>>

\* a directive's effect on a level's configuration, as a function
WithAuthCas(c, flag) == [c EXCEPT !.auth_cas = flag]
WithCookie(c, v) == [c EXCEPT !.auth_cas_cookie = ngx_string(v)]
WithLoginUrl(c, v) == [c EXCEPT !.auth_cas_login_url = ngx_string(v)]
WithServiceUrl(c, v) == [c EXCEPT !.auth_cas_service_url = set_auth_cas_service_url(v)]

\* every configuration one level's block can hold when parsing ends
LevelConfs ==
    LET c0 == {ngx_http_auth_cas_create_loc_conf}
        c1 == c0 \cup {WithAuthCas(c, f) : c \in c0, f \in {0, 1}}
        c2 == c1 \cup {WithCookie(c, v) : c \in c1, v \in CookieArgs}
        c3 == c2 \cup {WithLoginUrl(c, v) : c \in c2, v \in LoginUrlArgs}
    IN  c3 \cup {WithServiceUrl(c, v) : c \in c3, v \in ServiceUrlArgs}

\* the last level of a chain of levels after the merges, root first
RECURSIVE MergeChain(_, _)
MergeChain(chain, l) ==
    IF l = 1 THEN chain[1]
    ELSE ngx_http_auth_cas_merge_loc_conf(MergeChain(chain, l - 1), chain[l])

\* every location configuration that loading a configuration can produce
RouteConfs == {MergeChain(chain, MaxLevels) : chain \in [Levels -> LevelConfs]}

(***************************************************************************)
(* The request.  headers_in.headers is the list of ngx_table_elt_t in the  *)
(* order received; headers_in.cookies is the array of POINTERS to the      *)
(* elements of that list whose key is Cookie.  The elements of the list    *)
(* lie one after the other in memory (one list part, 20 elements).         *)
(***************************************************************************)
\* a header value as the nginx parser leaves it: the bytes, then a NUL
HeaderValue(b) == [null |-> FALSE, len |-> Len(b), data |-> b \o <<0>>]

HeaderChoices ==
    { \* Cookie: CASC=v
      [key |-> "Cookie", value |-> HeaderValue(<<67, 65, 83, 67, 61, 118>>)],
      \* Cookie: a=1; CASC=v; b=2
      [key |-> "Cookie", value |-> HeaderValue(<<97, 61, 49, 59, 32, 67, 65, 83, 67, 61,
                                                 118, 59, 32, 98, 61, 50>>)],
      \* Cookie: a=b;<space>
      [key |-> "Cookie", value |-> HeaderValue(<<97, 61, 98, 59, 32>>)],
      \* Cookie: CASCX=1; CASC=
      [key |-> "Cookie", value |-> HeaderValue(<<67, 65, 83, 67, 88, 61, 49, 59, 32,
                                                 67, 65, 83, 67, 61>>)],
      \* X-Other: CASC=x
      [key |-> "X-Other", value |-> HeaderValue(<<67, 65, 83, 67, 61, 120>>)],
      \* X-Other: k
      [key |-> "X-Other", value |-> HeaderValue(<<107>>)] }

\* (uri, args): "/" and "", "/a b" and "x=1&y=2", "/?" and "?"
UriArgsChoices ==
    { <<(<<47>>), (<<>>)>>,
      <<(<<47, 97, 32, 98>>), (<<120, 61, 49, 38, 121, 61, 50>>)>>,
      <<(<<47, 63>>), (<<63>>)>> }

\* r->headers_in.cookies: the positions in the header list of the Cookie headers
RECURSIVE CookiePositions(_, _)
CookiePositions(headers, i) ==
    IF i > Len(headers) THEN <<>>
    ELSE (IF headers[i].key = "Cookie" THEN <<i>> ELSE <<>>)
         \o CookiePositions(headers, i + 1)

cookies(req) == CookiePositions(req.headers, 1)

(***************************************************************************)
(* find_cookie.                                                            *)
(***************************************************************************)
isspace(c) == c \in {32, 9, 10, 11, 12, 13}

\* while (isspace((*start))) start++;  -- no comparison with end.  Every
\* offset from start to the result is read.  (A header value's memory ends in
\* a NUL, which is no space, so the walk ends inside data.)
RECURSIVE SkipSpace(_, _)
SkipSpace(data, start) ==
    IF start < Len(data) /\ isspace(data[start + 1])
    THEN SkipSpace(data, start + 1)
    ELSE start

\* memchr(data + from, c, n): the offset of the first c in [from, from + n), or NULL
memchr(data, from, c, n) ==
    LET hits == {i \in from..(from + n - 1) : data[i + 1] = c}
    IN  IF hits = {} THEN NULL
        ELSE CHOOSE i \in hits : \A j \in hits : i <= j

\* ngx_memcmp(data + start, name.data, name.len) == 0
SameBytes(data, start, name) ==
    \A k \in 1..name.len : data[start + k] = name.data[k]

\* The while (start < end) loop over one header value.  maxread is the highest
\* offset of the value read so far, minlen the smallest length given to memchr.
RECURSIVE ScanPairs(_, _, _, _, _)
ScanPairs(value, name, start0, maxread, minlen) ==
    LET end == value.len
    IN  IF ~(start0 < end)
        THEN [found |-> FALSE, val |-> NULL, semicolon |-> NULL,
              maxread |-> maxread, minlen |-> minlen]
        ELSE
          LET start       == SkipSpace(value.data, start0)
              equals_sign == memchr(value.data, start, 61, end - start)
              read1       == Max(maxread, start)
              len1        == Min(minlen, end - start)
          IN  IF equals_sign = NULL
              THEN [found |-> FALSE, val |-> NULL, semicolon |-> NULL,
                    maxread |-> Max(read1, end - 1), minlen |-> len1]
              ELSE
                LET val       == equals_sign + 1
                    semicolon == memchr(value.data, val, 59, end - val)
                    read2     == Max(read1, IF semicolon = NULL THEN end - 1 ELSE semicolon)
                    len2      == Min(len1, end - val)
                IN  IF equals_sign - start = name.len
                       /\ SameBytes(value.data, start, name)
                    THEN [found |-> TRUE, val |-> val, semicolon |-> semicolon,
                          maxread |-> read2, minlen |-> len2]
                    ELSE IF semicolon # NULL
                         THEN ScanPairs(value, name, semicolon + 1, read2, len2)
                         ELSE [found |-> FALSE, val |-> NULL, semicolon |-> NULL,
                               maxread |-> read2, minlen |-> len2]

\* the element the loop variable cookie points to in iteration j (0-based):
\* cookie starts at *(ngx_table_elt_t **) cookies.elts, the first Cookie
\* header, and cookie++ steps to the next ngx_table_elt_t in memory, which is
\* the next element of the header list (MaxHeaders stays below the 20
\* elements of one list part, so the step never leaves the list: the last
\* position visited is at most that of the last Cookie header)
CookieElt(req, j) == cookies(req)[1] + j

\* The for loop from iteration j on.  trace collects, per value scanned, the
\* header list position and what the scan read.
RECURSIVE FindFrom(_, _, _, _, _)
FindFrom(req, name, j, failCopy, trace) ==
    IF j >= Len(cookies(req))
    THEN [crashed |-> FALSE, rc |-> 0, value |-> ngx_null_string, trace |-> trace,
          hit |-> 0, val |-> NULL, semicolon |-> NULL]
    ELSE
      LET pos   == CookieElt(req, j)
          value == req.headers[pos].value
          scan  == ScanPairs(value, name, 0, -1, value.len)
          tr    == Append(trace, [pos |-> pos, len |-> value.len,
                                  maxread |-> scan.maxread, minlen |-> scan.minlen])
          vlen  == value.len - scan.val
      IN  IF scan.found
          THEN IF scan.semicolon = NULL
               THEN \* value->data = val
                    [crashed |-> FALSE, rc |-> 1,
                     value |-> [null |-> FALSE, len |-> vlen,
                                data |-> SubSeq(value.data, scan.val + 1, Len(value.data))],
                     trace |-> tr, hit |-> pos, val |-> scan.val,
                     semicolon |-> scan.semicolon]
               ELSE IF failCopy
                    THEN \* ngx_pnalloc returned NULL: return 0
                         [crashed |-> FALSE, rc |-> 0,
                          value |-> [null |-> TRUE, len |-> vlen, data |-> <<>>],
                          trace |-> tr, hit |-> pos, val |-> scan.val,
                          semicolon |-> scan.semicolon]
                    ELSE \* copy value->len bytes from val, then a NUL
                         [crashed |-> FALSE, rc |-> 1,
                          value |-> [null |-> FALSE, len |-> vlen,
                                     data |-> SubSeq(value.data, scan.val + 1,
                                                     scan.val + vlen) \o <<0>>],
                          trace |-> tr, hit |-> pos, val |-> scan.val,
                          semicolon |-> scan.semicolon]
          ELSE FindFrom(req, name, j + 1, failCopy, tr)

\* find_cookie(r, name, &value); failCopy: the ngx_pnalloc of the copy fails.
\* Line 27 reads *(ngx_table_elt_t **) r->headers_in.cookies.elts before the
\* loop tests nelts.  With elts == NULL (no Cookie header, array not yet
\* created) that read is a NULL dereference and the function does not return;
\* with elts allocated and nelts == 0 the pointer read is not used.
find_cookie(req, name, failCopy) ==
    IF req.cookies_elts = "NULL"
    THEN [NoFind EXCEPT !.crashed = TRUE]
    ELSE FindFrom(req, name, 0, failCopy, <<>>)

(***************************************************************************)
(* create_login_url.  buf is what has been stored from s->data on; the     *)
(* write pointer p is s->data + Len(buf).                                  *)
(***************************************************************************)
\* sizeof(CAS_SERVICE_PARAM): the literal with its terminating NUL
SizeofServiceParam == Len(CAS_SERVICE_PARAM) + 1

\* a slip: no room reserved for the "%3F" separator
LoginUrlAlloc_NoSeparatorRoom(conf, req) ==
    conf.auth_cas_login_url.len
    + SizeofServiceParam
    + conf.auth_cas_service_url.len
    + (Len(req.uri) * 3)
    + (Len(req.args) * 3)

\* the size handed to ngx_pnalloc (the first value of s->len)
LoginUrlAlloc(conf, req) ==
    conf.auth_cas_login_url.len
    + SizeofServiceParam
    + conf.auth_cas_service_url.len
    + (Len(req.uri) * 3)
    + 3
    + (Len(req.args) * 3)

\* p = ngx_cpymem(p, src, n)
ngx_cpymem(buf, src, n) == buf \o SubSeq(src, 1, n)

\* p = ngx_escape_uri(p, src, size, NGX_ESCAPE_ARGS)
EscapeInto(buf, src, size) == buf \o ngx_escape_uri_write(src, size)

\* a slip: the separator is written whether or not there is a query string
LoginUrlBody_AlwaysSeparator(conf, req) ==
    LET p1 == ngx_cpymem(<<>>, conf.auth_cas_login_url.data, conf.auth_cas_login_url.len)
        p2 == ngx_cpymem(p1, CAS_SERVICE_PARAM, SizeofServiceParam - 1)
        p3 == ngx_cpymem(p2, conf.auth_cas_service_url.data, conf.auth_cas_service_url.len)
        p4 == EscapeInto(p3, req.uri, Len(req.uri))
    IN  EscapeInto(p4 \o <<37, 51, 70>>, req.args, Len(req.args))

\* the bytes stored before the terminator
LoginUrlBody(conf, req) ==
    LET p1 == ngx_cpymem(<<>>, conf.auth_cas_login_url.data, conf.auth_cas_login_url.len)
        p2 == ngx_cpymem(p1, CAS_SERVICE_PARAM, SizeofServiceParam - 1)
        p3 == ngx_cpymem(p2, conf.auth_cas_service_url.data, conf.auth_cas_service_url.len)
        p4 == EscapeInto(p3, req.uri, Len(req.uri))
    IN  IF Len(req.args) # 0
        THEN EscapeInto(p4 \o <<37, 51, 70>>, req.args, Len(req.args))
        ELSE p4

\* create_login_url(r, &s); failBuf: ngx_pnalloc fails.  stored is everything
\* written from s->data on, the final NUL included.
create_login_url(conf, req, failBuf) ==
    IF failBuf
    THEN [rc |-> 0, alloc |-> LoginUrlAlloc(conf, req), stored |-> <<>>,
          s |-> [null |-> TRUE, len |-> LoginUrlAlloc(conf, req), data |-> <<>>]]
    ELSE LET body == LoginUrlBody(conf, req)
         IN  [rc |-> 1, alloc |-> LoginUrlAlloc(conf, req), stored |-> body \o <<0>>,
              s |-> [null |-> FALSE, len |-> Len(body), data |-> body \o <<0>>]]

\* send_redirect(r, location); failPush: ngx_list_push fails
send_redirect(location, failPush) ==
    IF failPush
    THEN [status |-> "NGX_HTTP_INTERNAL_SERVER_ERROR", location |-> ngx_null_string]
    ELSE [status |-> "NGX_HTTP_MOVED_TEMPORARILY", location |-> location]

\* ngx_http_auth_cas_handler(r): the status returned, headers_out.location,
\* and what find_cookie and create_login_url did on the way (scanned, fc:
\* find_cookie was called and its result; built, url: the same for
\* create_login_url; failed: the allocations that were asked for and failed).
\* Status "SIGSEGV": find_cookie crashed and the handler returned nothing.
ngx_http_auth_cas_handler(conf, req, failCopy, failBuf, failPush) ==
    LET none == NoOut
    IN  IF conf.auth_cas = 0
        THEN [none EXCEPT !.status = "NGX_DECLINED"]
        ELSE
          LET fc == find_cookie(req, conf.auth_cas_cookie, failCopy)
              f1 == IF fc.hit # 0 /\ fc.rc = 0 THEN {"copy"} ELSE {}
          IN  IF fc.crashed
              THEN [none EXCEPT !.status = "SIGSEGV", !.scanned = TRUE, !.fc = fc]
              ELSE IF fc.rc = 0
              THEN LET url == create_login_url(conf, req, failBuf)
                   IN  IF url.rc = 0
                       THEN [none EXCEPT !.status = "NGX_HTTP_INTERNAL_SERVER_ERROR",
                                         !.scanned = TRUE, !.fc = fc,
                                         !.built = TRUE, !.url = url,
                                         !.failed = f1 \cup {"buffer"}]
                       ELSE LET sr == send_redirect(url.s, failPush)
                            IN  [none EXCEPT !.status = sr.status,
                                             !.location = sr.location,
                                             !.scanned = TRUE, !.fc = fc,
                                             !.built = TRUE, !.url = url,
                                             !.failed = f1 \cup (IF failPush THEN {"push"}
                                                                             ELSE {})]
              ELSE [none EXCEPT !.status = "NGX_HTTP_UNAUTHORIZED",
                                !.scanned = TRUE, !.fc = fc]

\* a request line arrives: the path and the query string.  elts is what
\* nginx core leaves in headers_in.cookies.elts of a new request: "alloc"
\* where it creates the array with the request (its elements uninitialised),
\* "NULL" where it creates it on the first Cookie header.
NewRequest(uri, args, elts) ==
    /\ pc = "ready"
    /\ pc' = "recv"
    /\ r' = [headers |-> <<>>, cookies_elts |-> elts, uri |-> uri, args |-> args]
    /\ UNCHANGED <<confs, cfarg, wrote, merged, loc_conf, out>>

\* a request header line arrives and is pushed onto headers_in.headers; a
\* Cookie header's element is also pushed onto headers_in.cookies
RecvHeader(h) ==
    /\ pc = "recv"
    /\ Len(r.headers) < MaxHeaders
    /\ r' = [r EXCEPT !.headers = Append(@, h),
                      !.cookies_elts = IF h.key = "Cookie" THEN "alloc" ELSE @]
    /\ UNCHANGED <<pc, confs, cfarg, wrote, merged, loc_conf, out>>

\* the access phase runs the handler
Handler(failCopy, failBuf, failPush) ==
    /\ pc = "recv"
    /\ pc' = "done"
    /\ out' = ngx_http_auth_cas_handler(loc_conf, r, failCopy, failBuf, failPush)
    /\ UNCHANGED <<confs, cfarg, wrote, merged, loc_conf, r>>

\* the request is finished (after a crash: the worker is replaced by one
\* with the same configuration); the next one can arrive
Finalize ==
    /\ pc = "done"
    /\ pc' = "ready"
    /\ r' = NoRequest
    /\ out' = NoOut
    /\ UNCHANGED <<confs, cfarg, wrote, merged, loc_conf>>

(***************************************************************************)
(* ConfSpec: loading a configuration, directive by directive and merge by  *)
(* merge.                                                                  *)
(***************************************************************************)
ConfNext ==
    \/ \E l \in Levels, flag \in {0, 1} : SetAuthCas(l, flag)
    \/ \E l \in Levels, v \in CookieArgs : SetCookie(l, v)
    \/ \E l \in Levels, v \in LoginUrlArgs : SetLoginUrl(l, v)
    \/ \E l \in Levels, v \in ServiceUrlArgs : SetServiceUrl(l, v)
    \/ EndParse
    \/ MergeLevel

ConfSpec == ConfInit /\ [][ConfNext]_vars

(***************************************************************************)
(* Spec: a worker serving requests on a route whose location configuration *)
(* is any one that loading can produce.  The per-level configurations are  *)
(* not kept here: the handler reads the route's loc_conf only.             *)
(***************************************************************************)
Init ==
    /\ pc = "ready"
    /\ confs = [l \in Levels |-> ngx_http_auth_cas_create_loc_conf]
    /\ cfarg = [l \in Levels |-> NoArg]
    /\ wrote = [l \in Levels |-> 0]
    /\ merged = 1
    /\ loc_conf \in RouteConfs
    /\ r = NoRequest
    /\ out = NoOut

Next ==
    \/ \E ua \in UriArgsChoices, elts \in {"NULL", "alloc"} :
          NewRequest(ua[1], ua[2], elts)
    \/ \E h \in HeaderChoices : RecvHeader(h)
    \/ \E failCopy \in BOOLEAN, failBuf \in BOOLEAN, failPush \in BOOLEAN :
          Handler(failCopy, failBuf, failPush)
    \/ Finalize

Spec == Init /\ [][Next]_vars

(***************************************************************************)
(* Properties.                                                             *)
(***************************************************************************)
Done == pc = "done"
Active == loc_conf.auth_cas # 0
Escaped(b) == ngx_escape_uri_write(b, Len(b))
Separator == <<37, 51, 70>>

\* the number of places where the three bytes "%3F" occur in b
Count3F(b) == Cardinality({i \in 1..(Len(b) - 2) : SubSeq(b, i, i + 2) = Separator})

\* the number of '?' bytes in b
CountQuestionMarks(b) == Cardinality({i \in 1..Len(b) : b[i] = 63})

\* the scan found a pair named cookie_name, and found it in a Cookie header
CookieMatched ==
    /\ out.scanned
    /\ out.fc.hit # 0
    /\ r.headers[out.fc.hit].key = "Cookie"

\* C1: on an active route, a request in whose Cookie header values the scan
\* identifies a pair named cookie_name is answered with the unauthorized
\* status, whatever the request-pool allocator does.
C1_MatchIsDenied ==
    (Done /\ Active /\ CookieMatched) => out.status = "NGX_HTTP_UNAUTHORIZED"

\* no Cookie header value of the request holds a pair that the left-to-right
\* scan identifies as named cookie_name (a condition on the request: it looks
\* at the Cookie headers, not at what the loop of find_cookie visited)
NoMatchingCookie ==
    \A i \in 1..Len(r.headers) :
        r.headers[i].key = "Cookie" =>
            ~ScanPairs(r.headers[i].value, loc_conf.auth_cas_cookie, 0, -1,
                       r.headers[i].value.len).found

\* C2: on an active route, for every request with no matching cookie and
\* every allocation succeeding, the handler returns the temporary redirect
\* and the Location value is login_url ++ "?service=" ++ stored service_url
\* ++ escape(path), then "%3F" ++ escape(query) exactly when the query is not
\* empty.
C2_RedirectLocation ==
    (Done /\ Active /\ NoMatchingCookie /\ out.failed = {}) =>
        /\ out.status = "NGX_HTTP_MOVED_TEMPORARILY"
        /\ ~out.location.null
        /\ Bytes(out.location) =
              Bytes(loc_conf.auth_cas_login_url)
              \o CAS_SERVICE_PARAM
              \o Bytes(loc_conf.auth_cas_service_url)
              \o Escaped(r.uri)
              \o (IF r.args # <<>> THEN Separator \o Escaped(r.args) ELSE <<>>)

\* C3: the handler returns NGX_DECLINED exactly when auth_cas is off; when it
\* is on, whatever allocations fail, the result is unauthorized, temporary
\* redirect or internal server error.
C3_FailClosed ==
    Done =>
        /\ (out.status = "NGX_DECLINED") <=> (loc_conf.auth_cas = 0)
        /\ Active => out.status \in {"NGX_HTTP_UNAUTHORIZED",
                                     "NGX_HTTP_MOVED_TEMPORARILY",
                                     "NGX_HTTP_INTERNAL_SERVER_ERROR"}

\* C4: when find_cookie reports a match, the value it returns is the bytes
\* after the pair's '=' up to, not including, the next ';', or up to the end
\* of the header value when no ';' follows.
C4_ValueEndsAtSemicolon ==
    (Done /\ out.scanned /\ out.fc.rc = 1) =>
        LET value == r.headers[out.fc.hit].value
            stop  == IF out.fc.semicolon = NULL THEN value.len ELSE out.fc.semicolon
        IN  Bytes(out.fc.value) = SubSeq(value.data, out.fc.val + 1, stop)

\* C5: gate on, login URL never configured, no matching cookie: the outcome
\* is the internal-error status, no redirect and no Location header.
C5_NoLoginUrlIsInternalError ==
    (Done /\ Active /\ loc_conf.auth_cas_login_url.null
          /\ out.scanned /\ out.fc.hit = 0) =>
        /\ out.status = "NGX_HTTP_INTERNAL_SERVER_ERROR"
        /\ out.location.null

\* C6 as stated: the output of create_login_url holds no "%3F" when the query
\* is empty and exactly one when it is not.
C6_ExactlyOneSeparator ==
    (Done /\ out.built /\ out.url.rc = 1) =>
        Count3F(Bytes(out.url.s)) = (IF r.args = <<>> THEN 0 ELSE 1)

\* C6 amended: after login_url ++ "?service=" ++ service_url, the output is
\* escape(path), followed exactly when the query is not empty by "%3F" and
\* escape(query); the "%3F" in that part are this separator and the escapes of
\* the '?' bytes of the path and of the query, and no other.
C6_SeparatorIffQuery ==
    (Done /\ out.built /\ out.url.rc = 1) =>
        LET body   == Bytes(out.url.s)
            prefix == loc_conf.auth_cas_login_url.len + Len(CAS_SERVICE_PARAM)
                      + loc_conf.auth_cas_service_url.len
            rest   == SubSeq(body, prefix + 1, Len(body))
            path   == Escaped(r.uri)
        IN  /\ SubSeq(rest, 1, Len(path)) = path
            /\ (r.args = <<>>) => rest = path
            /\ (r.args # <<>>) => rest = path \o Separator \o Escaped(r.args)
            /\ Count3F(rest) = CountQuestionMarks(r.uri) + CountQuestionMarks(r.args)
                               + (IF r.args = <<>> THEN 0 ELSE 1)

\* C6's case: a built URL for a path with a '?' and a query string
C6_Witness ==
    /\ Done /\ out.built /\ out.url.rc = 1
    /\ r.args # <<>>
    /\ CountQuestionMarks(r.uri) > 0

\* C7: after configuration load the stored service URL is the complete
\* percent-encoded form of the URL supplied: its len equals the number of
\* bytes the write-mode call writes, and they fit in the len + 1 bytes
\* allocated.
C7_StoredServiceUrlIsEscapedArg ==
    (pc = "ready" /\ ~loc_conf.auth_cas_service_url.null) =>
        /\ Bytes(loc_conf.auth_cas_service_url) = Escaped(cfarg[MaxLevels])
        /\ loc_conf.auth_cas_service_url.len = wrote[MaxLevels]
        /\ wrote[MaxLevels] <= loc_conf.auth_cas_service_url.len + 1

\* C8: find_cookie examines the Cookie header values, in the order received,
\* and nothing else: the i-th value scanned is the i-th Cookie header's, and
\* a match is never found in another header.
C8_ScansCookieHeadersOnly ==
    (Done /\ out.scanned) =>
        /\ Len(out.fc.trace) <= Len(cookies(r))
        /\ \A i \in 1..Len(out.fc.trace) :
              i <= Len(cookies(r)) => out.fc.trace[i].pos = cookies(r)[i]
        /\ out.fc.hit # 0 => r.headers[out.fc.hit].key = "Cookie"

\* C10: scanning a header value of length len, find_cookie reads no byte at
\* an offset >= len and hands memchr no negative length.
C10_NoReadPastEnd ==
    (Done /\ out.scanned) =>
        \A i \in 1..Len(out.fc.trace) :
            /\ out.fc.trace[i].maxread < out.fc.trace[i].len
            /\ out.fc.trace[i].minlen >= 0

\* C9: in create_login_url every byte stored, the final NUL included, lies at
\* an offset below the size allocated, and the s->len returned is the number
\* of bytes stored before the NUL.
C9_StoredWithinAllocation ==
    (Done /\ out.built /\ out.url.rc = 1) =>
        /\ Len(out.url.stored) <= out.url.alloc
        /\ out.url.stored[Len(out.url.stored)] = 0
        /\ out.url.s.len = Len(out.url.stored) - 1
        /\ out.url.s.len <= out.url.alloc

\* C9's case: a URL built for a request whose path and query both hold bytes
\* that are escaped
C9_Witness ==
    /\ Done /\ out.built /\ out.url.rc = 1
    /\ ngx_escape_uri_count(r.uri, Len(r.uri)) > 0
    /\ ngx_escape_uri_count(r.args, Len(r.args)) > 0

=============================================================================
